---- MODULE Spec2Model ----
(***************************************************************************)
(* The expense tracker screen of src/app/index.tsx as a state machine.     *)
(*                                                                         *)
(* One React component owns the tracker list and the form fields.  Two     *)
(* effects talk to AsyncStorage: the mount-time load (one getItem whose    *)
(* continuation replaces the list) and the save that runs after every      *)
(* render in which the list is a new array (one setItem each, not          *)
(* awaited).  Handlers run one at a time on the latest rendered state.     *)
(*                                                                         *)
(* Values.  A JS number is [k |-> "num", v |-> hundredths], NaN and null   *)
(* are [k |-> "nan"] and [k |-> "null"]; a Date is [k |-> "date",          *)
(* v |-> ms] and its JSON form (an ISO string) is [k |-> "iso", v |-> ms]. *)
(* Text typed in the amount field is a sequence of one-character strings.  *)
(***************************************************************************)
EXTENDS Integers, Sequences, FiniteSets, Bags, TLC

VARIABLES trackers, trackerName, trackerDate, expenseTitle, expenseAmount,
          storage, writes, loadPc, now, lastOp, edits, bootBlob

vars == <<trackers, trackerName, trackerDate, expenseTitle, expenseAmount,
          storage, writes, loadPc, now, lastOp, edits, bootBlob>>

(* ------------------------------ bounds --------------------------------- *)

\* The clock (Date.now(), in ms) runs from 1 to MaxClock.
MaxClock == 2

\* The number of setTrackers calls the UI handlers make in one launch.
MaxEdits == 2

(* ------------------------------ values --------------------------------- *)

Num(n) == [k |-> "num", v |-> n]

NaN == [k |-> "nan", v |-> 0]

Null == [k |-> "null", v |-> 0]

DateOf(ms) == [k |-> "date", v |-> ms]

IsoOf(ms) == [k |-> "iso", v |-> ms]

InProgress == "In progress"

Cleared == "Cleared"

Abs(n) == IF n < 0 THEN -n ELSE n

\* What the user can type in the name and title fields.
NameInputs == {"", "rent"}

TitleInputs == {"", "food"}

\* What the user can type in the amount field (a numeric keypad).
AmountInputs == { <<>>, <<"1", "0", ".", "5", "0">>, <<".">> }

(* ------------------------------ parseFloat ----------------------------- *)

Digits == {"0", "1", "2", "3", "4", "5", "6", "7", "8", "9"}

DigitVal(c) ==
  CASE c = "0" -> 0 [] c = "1" -> 1 [] c = "2" -> 2 [] c = "3" -> 3
    [] c = "4" -> 4 [] c = "5" -> 5 [] c = "6" -> 6 [] c = "7" -> 7
    [] c = "8" -> 8 [] c = "9" -> 9

\* The length of the longest prefix of s[from..] made of digits.
RECURSIVE DigitRun(_, _)
DigitRun(s, from) ==
  IF from <= Len(s) /\ s[from] \in Digits THEN 1 + DigitRun(s, from + 1) ELSE 0

\* The value of the digits s[from..from+n-1] read as a decimal integer.
RECURSIVE DigitsValue(_, _, _)
DigitsValue(s, from, n) ==
  IF n = 0 THEN 0
  ELSE 10 * DigitsValue(s, from, n - 1) + DigitVal(s[from + n - 1])

\* The first two fraction digits s[from..], as hundredths.
Hundredths(s, from, n) ==
  IF n = 0 THEN 0
  ELSE IF n = 1 THEN 10 * DigitVal(s[from])
  ELSE 10 * DigitVal(s[from]) + DigitVal(s[from + 1])

\* parseFloat(amount): the longest decimal prefix (digits, an optional
\* point, digits), in hundredths; NaN when that prefix holds no digit.
parseFloat(s) ==
  LET ni == DigitRun(s, 1)
      dot == ni + 1 <= Len(s) /\ s[ni + 1] = "."
      nf == IF dot THEN DigitRun(s, ni + 2) ELSE 0
  IN  IF ni = 0 /\ nf = 0 THEN NaN
      ELSE Num(100 * DigitsValue(s, 1, ni) + Hundredths(s, ni + 2, nf))

(* ------------------------------ arrays --------------------------------- *)

\* One step of a stable insertion over positions: position i goes after
\* every position whose key is not greater than its own.
RECURSIVE InsertBy(_, _, _)
InsertBy(sorted, i, keys) ==
  IF sorted = <<>> THEN <<i>>
  ELSE IF keys[Head(sorted)] <= keys[i]
       THEN <<Head(sorted)>> \o InsertBy(Tail(sorted), i, keys)
       ELSE <<i>> \o sorted

\* The positions 1..n in ascending order of key, equal keys in order.
RECURSIVE SortedPositions(_, _)
SortedPositions(n, keys) ==
  IF n = 0 THEN <<>>
  ELSE InsertBy(SortedPositions(n - 1, keys), n, keys)

\* Array.prototype.sort with a comparator (a, b) => key(a) - key(b), keys
\* being the key of each element: ascending by key, stable.
SortBy(s, keys) ==
  LET order == SortedPositions(Len(s), keys)
  IN  [j \in 1..Len(s) |-> s[order[j]]]

(* ------------------------------ JSON ----------------------------------- *)

\* AsyncStorage.getItem of a key never written.
NoBlob == [k |-> "null", json |-> <<>>]

\* JSON.stringify of a number: NaN has no JSON form and is written null.
NumberToJSON(a) == IF a.k = "nan" THEN Null ELSE a

\* JSON.stringify of a Date: Date.prototype.toJSON gives the ISO string.
DateToJSON(d) == IsoOf(d.v)

ExpenseToJSON(e) ==
  [id |-> e.id, title |-> e.title, amount |-> NumberToJSON(e.amount)]

TrackerToJSON(t) ==
  [id |-> t.id, name |-> t.name, date |-> DateToJSON(t.date),
   expenses |-> [k \in 1..Len(t.expenses) |-> ExpenseToJSON(t.expenses[k])],
   status |-> t.status, expanded |-> t.expanded]

\* JSON.stringify(trackers): the stored blob.
JSONstringify(list) ==
  [k |-> "str", json |-> [i \in 1..Len(list) |-> TrackerToJSON(list[i])]]

\* JSON.parse(storedTrackers): the array of plain objects in the blob.
JSONparse(blob) == blob.json

\* new Date(x): an ISO string gives its instant, null gives the epoch.
NewDate(x) == IF x.k = "null" THEN DateOf(0) ELSE DateOf(x.v)

\* (tracker) => ({ ...tracker, date: new Date(tracker.date) })
Rehydrate(t) == [t EXCEPT !.date = NewDate(t.date)]

\* parsedTrackers.sort by |now - date|, ascending: the most recent first.
SortByRecency(list, t) ==
  SortBy(list, [i \in 1..Len(list) |-> Abs(t - list[i].date.v)])

\* JSON.parse(storedTrackers).map(tracker => ({ ...tracker, date: ... }))
ParsedTrackers(blob) ==
  [i \in 1..Len(JSONparse(blob)) |-> Rehydrate(JSONparse(blob)[i])]

\* What loadTrackers hands to setTrackers for a stored blob, at instant t.
LoadedTrackers(blob, t) == SortByRecency(ParsedTrackers(blob), t)

(* ------------------------------ the list ------------------------------- *)

\* trackerDate || new Date()
DateOrToday(d, t) == IF d.k = "null" THEN DateOf(t) ELSE d

NewTracker(name, d, t) ==
  [id |-> t, name |-> name, date |-> DateOrToday(d, t), expenses |-> <<>>,
   status |-> InProgress, expanded |-> FALSE]

\* [...].sort((a, b) => a.date.getTime() - b.date.getTime())
SortByDate(list) == SortBy(list, [i \in 1..Len(list) |-> list[i].date.v])

\* addTracker without its sort.
AddTrackerListUnsorted(list, name, d, t) ==
  Append(list, NewTracker(name, d, t))

\* The list addTracker hands to setTrackers.
AddTrackerList(list, name, d, t) ==
  SortByDate(Append(list, NewTracker(name, d, t)))

\* deleteTracker with the test of its filter inverted.
DeleteTrackerListInverted(list, trackerId) ==
  SelectSeq(list, LAMBDA tr : tr.id = trackerId)

\* trackers.filter(tracker => tracker.id !== trackerId)
DeleteTrackerList(list, trackerId) ==
  SelectSeq(list, LAMBDA tr : tr.id # trackerId)

NewExpense(title, amount, t) ==
  [id |-> t, title |-> title, amount |-> parseFloat(amount)]

\* The list addExpense hands to setTrackers.
AddExpenseList(list, trackerId, title, amount, t) ==
  [i \in 1..Len(list) |->
     IF list[i].id = trackerId
     THEN [list[i] EXCEPT
             !.expenses = Append(@, NewExpense(title, amount, t))]
     ELSE list[i]]

\* The list deleteExpense hands to setTrackers.
DeleteExpenseList(list, trackerId, expenseId) ==
  [i \in 1..Len(list) |->
     IF list[i].id = trackerId
     THEN [list[i] EXCEPT
             !.expenses = SelectSeq(@, LAMBDA e : e.id # expenseId)]
     ELSE list[i]]

FlipStatus(s) == IF s = InProgress THEN Cleared ELSE InProgress

\* toggleStatus that can only clear.
ToggleStatusListClearOnly(list, trackerId) ==
  [i \in 1..Len(list) |->
     IF list[i].id = trackerId
     THEN [list[i] EXCEPT !.status = Cleared]
     ELSE list[i]]

\* The list toggleStatus hands to setTrackers.
ToggleStatusList(list, trackerId) ==
  [i \in 1..Len(list) |->
     IF list[i].id = trackerId
     THEN [list[i] EXCEPT !.status = FlipStatus(@)]
     ELSE list[i]]

\* The list toggleExpand hands to setTrackers.
ToggleExpandList(list, trackerId) ==
  [i \in 1..Len(list) |->
     IF list[i].id = trackerId
     THEN [list[i] EXCEPT !.expanded = ~@]
     ELSE list[i]]

\* sum + expense.amount on JS numbers: NaN absorbs, null counts as 0.
Plus(a, b) ==
  IF a.k = "nan" \/ b.k = "nan" THEN NaN ELSE Num(a.v + b.v)

\* tracker.expenses.reduce((sum, expense) => sum + expense.amount, 0)
RECURSIVE Reduce(_, _)
Reduce(expenses, sum) ==
  IF expenses = <<>> THEN sum
  ELSE Reduce(Tail(expenses), Plus(sum, Head(expenses).amount))

\* getTotal whose reducer forgets the running sum.
getTotalLastOnly(tracker) ==
  IF tracker.expenses = <<>> THEN Num(0)
  ELSE tracker.expenses[Len(tracker.expenses)].amount

getTotal(tracker) == Reduce(tracker.expenses, Num(0))

(* ------------------------------ state ---------------------------------- *)

\* trackers      the tracker list of the latest render (useState, line 23)
\* trackerName   the name field; trackerDate the date of the add form
\* expenseTitle, expenseAmount   the fields of the expense form
\* storage       the value AsyncStorage holds under the key "trackers"
\* writes        the setItem calls issued and not yet completed (a bag)
\* loadPc        "reading" while the mount-time getItem is outstanding
\* now           the clock, Date.now()
\* lastOp        the handler or completion that ran last, with its ids
\* edits         the setTrackers calls UI handlers have made since launch
\* bootBlob      what storage held when the app was launched

\* The trackers a previous session left behind: created at instants before
\* this launch and saved in the date order addTracker produces.  At every
\* instant of this launch the second is the more recent of the two.
SavedTrackers ==
  << [id |-> -1, name |-> "rent", date |-> DateOf(0),
      expenses |-> << [id |-> 0, title |-> "food", amount |-> Num(500)] >>,
      status |-> InProgress, expanded |-> FALSE],
     [id |-> 0, name |-> "rent", date |-> DateOf(1),
      expenses |-> <<>>, status |-> Cleared, expanded |-> TRUE] >>

\* What storage can hold at launch: nothing (first launch) or a saved list.
BootBlobs == {NoBlob, JSONstringify(SavedTrackers)}

\* An id that no tracker and no expense has.
NoSuchId == -2

\* The ids a handler can be called with: the item.id of a card of the list,
\* or an id that no tracker has.
TrackerIds == {trackers[i].id : i \in DOMAIN trackers} \cup {NoSuchId}

\* The expense ids deleteExpense can be called with: the expense.id of a
\* row of a card, or an id that no expense has.
ExpenseIds ==
  UNION {{trackers[i].expenses[k].id : k \in DOMAIN trackers[i].expenses} :
           i \in DOMAIN trackers} \cup {NoSuchId}

\* The dates the date picker can return: one before every instant of this
\* launch, one not before any.
PickerDates == {DateOf(0), DateOf(MaxClock)}

\* A save effect that does not write an empty list.
SaveEffectSkipsEmpty(pending, list) ==
  IF list = <<>> THEN pending
  ELSE pending (+) SetToBag({JSONstringify(list)})

\* useEffect(() => AsyncStorage.setItem(...), [trackers]): the write issued
\* after the render of a new list.
SaveEffect(pending, list) == pending (+) SetToBag({JSONstringify(list)})

\* setTrackers(list), the render it causes and the save effect of that render.
SetTrackers(list) ==
  /\ trackers' = list
  /\ writes' = SaveEffect(writes, list)

\* A UI handler runs, on the latest render; op names the handler and the
\* path it took, args the ids it was called with.
Handler(op, args) ==
  /\ lastOp' = [op |-> op, args |-> args]
  /\ UNCHANGED <<storage, loadPc, now, bootBlob>>

\* A UI handler calls setTrackers(list).
Edit(list) ==
  /\ edits < MaxEdits
  /\ edits' = edits + 1
  /\ SetTrackers(list)

Init ==
  /\ now = 1
  /\ trackers = <<>>
  /\ trackerName = ""
  /\ trackerDate = DateOf(now)
  /\ expenseTitle = ""
  /\ expenseAmount = <<>>
  /\ storage \in BootBlobs
  /\ bootBlob = storage
  /\ writes = SaveEffect(EmptyBag, <<>>)
  /\ loadPc = "reading"
  /\ lastOp = [op |-> "mount", args |-> <<>>]
  /\ edits = 0

(* ------------------------------ form fields ---------------------------- *)

SetTrackerName ==
  \E text \in NameInputs :
    /\ Handler("setTrackerName", <<>>)
    /\ trackerName' = text
    /\ UNCHANGED <<trackers, writes, edits, trackerDate, expenseTitle,
                   expenseAmount>>

\* The date picker's onChange with a selected date.
PickDate ==
  \E d \in PickerDates :
    /\ Handler("pickDate", <<>>)
    /\ trackerDate' = d
    /\ UNCHANGED <<trackers, writes, edits, trackerName, expenseTitle,
                   expenseAmount>>

SetExpenseTitle ==
  \E text \in TitleInputs :
    /\ Handler("setExpenseTitle", <<>>)
    /\ expenseTitle' = text
    /\ UNCHANGED <<trackers, writes, edits, trackerName, trackerDate,
                   expenseAmount>>

SetExpenseAmount ==
  \E text \in AmountInputs :
    /\ Handler("setExpenseAmount", <<>>)
    /\ expenseAmount' = text
    /\ UNCHANGED <<trackers, writes, edits, trackerName, trackerDate,
                   expenseTitle>>

(* ------------------------------ handlers ------------------------------- *)

\* if (!trackerName) return;
AddTrackerRejects(name) == name = ""

AddTracker ==
  /\ IF AddTrackerRejects(trackerName)
     THEN /\ Handler("addTracker.return", <<>>)
          /\ UNCHANGED <<trackers, writes, edits, trackerName, trackerDate>>
     ELSE /\ Handler("addTracker", <<>>)
          /\ Edit(AddTrackerList(trackers, trackerName, trackerDate, now))
          /\ trackerName' = ""
          /\ trackerDate' = DateOf(now)
  /\ UNCHANGED <<expenseTitle, expenseAmount>>

DeleteTracker ==
  \E trackerId \in TrackerIds :
    /\ Handler("deleteTracker", <<trackerId>>)
    /\ Edit(DeleteTrackerList(trackers, trackerId))
    /\ UNCHANGED <<trackerName, trackerDate, expenseTitle, expenseAmount>>

\* addExpense checking the title alone.
AddExpenseRejectsTitleOnly(title, amount) == title = ""

\* if (!title || !amount) return;
AddExpenseRejects(title, amount) == title = "" \/ amount = <<>>

\* The + button of a tracker card: addExpense(item.id, expenseTitle,
\* expenseAmount).
AddExpense ==
  \E trackerId \in TrackerIds :
    /\ IF AddExpenseRejects(expenseTitle, expenseAmount)
       THEN /\ Handler("addExpense.return", <<trackerId>>)
            /\ UNCHANGED <<trackers, writes, edits, expenseTitle, expenseAmount>>
       ELSE /\ Handler("addExpense", <<trackerId>>)
            /\ Edit(AddExpenseList(trackers, trackerId, expenseTitle,
                                   expenseAmount, now))
            /\ expenseTitle' = ""
            /\ expenseAmount' = <<>>
    /\ UNCHANGED <<trackerName, trackerDate>>

DeleteExpense ==
  \E trackerId \in TrackerIds, expenseId \in ExpenseIds :
    /\ Handler("deleteExpense", <<trackerId, expenseId>>)
    /\ Edit(DeleteExpenseList(trackers, trackerId, expenseId))
    /\ UNCHANGED <<trackerName, trackerDate, expenseTitle, expenseAmount>>

ToggleStatus ==
  \E trackerId \in TrackerIds :
    /\ Handler("toggleStatus", <<trackerId>>)
    /\ Edit(ToggleStatusList(trackers, trackerId))
    /\ UNCHANGED <<trackerName, trackerDate, expenseTitle, expenseAmount>>

ToggleExpand ==
  \E trackerId \in TrackerIds :
    /\ Handler("toggleExpand", <<trackerId>>)
    /\ Edit(ToggleExpandList(trackers, trackerId))
    /\ UNCHANGED <<trackerName, trackerDate, expenseTitle, expenseAmount>>

(* ------------------------------ environment ---------------------------- *)

\* The clock advances.
Tick ==
  /\ now < MaxClock
  /\ now' = now + 1
  /\ UNCHANGED <<trackers, trackerName, trackerDate, expenseTitle,
                 expenseAmount, storage, writes, loadPc, lastOp, edits,
                 bootBlob>>

\* One of the outstanding setItem calls completes: its blob is the stored
\* value from now on.  Nothing orders the calls.
WriteComplete ==
  \E blob \in BagToSet(writes) :
    /\ storage' = blob
    /\ writes' = writes (-) SetToBag({blob})
    /\ lastOp' = [op |-> "writeComplete", args |-> <<>>]
    /\ UNCHANGED <<trackers, trackerName, trackerDate, expenseTitle,
                   expenseAmount, loadPc, now, edits, bootBlob>>

\* The mount-time getItem resolves and loadTrackers continues.
LoadComplete ==
  /\ loadPc = "reading"
  /\ loadPc' = "done"
  /\ lastOp' = [op |-> "loadComplete", args |-> <<>>]
  /\ IF storage # NoBlob
     THEN SetTrackers(LoadedTrackers(storage, now))
     ELSE UNCHANGED <<trackers, writes>>
  /\ UNCHANGED <<trackerName, trackerDate, expenseTitle, expenseAmount,
                 storage, now, edits, bootBlob>>

Next ==
  \/ SetTrackerName
  \/ PickDate
  \/ SetExpenseTitle
  \/ SetExpenseAmount
  \/ AddTracker
  \/ DeleteTracker
  \/ AddExpense
  \/ DeleteExpense
  \/ ToggleStatus
  \/ ToggleExpand
  \/ Tick
  \/ WriteComplete
  \/ LoadComplete

Spec == Init /\ [][Next]_vars

(***************************************************************************)
(* The state space of Spec is the product of three nearly independent      *)
(* parts: the tracker-level handlers, the two add forms, and the order in  *)
(* which the outstanding writes complete.  Each part is explored in full   *)
(* by a specification that keeps the mount, the clock and the load and     *)
(* leaves out the handlers of the other parts; every behaviour of such a   *)
(* specification is a behaviour of Spec.                                   *)
(***************************************************************************)

\* The tracker-level handlers, with every write still in flight.
NextList ==
  \/ SetTrackerName
  \/ PickDate
  \/ AddTracker
  \/ DeleteTracker
  \/ ToggleStatus
  \/ ToggleExpand
  \/ Tick
  \/ LoadComplete

SpecList == Init /\ [][NextList]_vars

\* The add forms and the expense handlers, with every write still in flight.
NextForms ==
  \/ SetTrackerName
  \/ AddTracker
  \/ SetExpenseTitle
  \/ SetExpenseAmount
  \/ AddExpense
  \/ DeleteExpense
  \/ Tick
  \/ LoadComplete

SpecForms == Init /\ [][NextForms]_vars

\* The storage traffic: the load, the writes completing in any order, and
\* the edits that add and remove trackers.
NextStorage ==
  \/ SetTrackerName
  \/ AddTracker
  \/ DeleteTracker
  \/ Tick
  \/ WriteComplete
  \/ LoadComplete

SpecStorage == Init /\ [][NextStorage]_vars

(* ------------------------------ properties ----------------------------- *)

\* The step is a call of the handler op that reached setTrackers.
Edited(op) == lastOp'.op = op /\ edits' = edits + 1

\* The step is a call of a handler (the clock stands still during one).
Called(ops) == lastOp'.op \in ops /\ now' = now

\* The number of positions of list that hold x.
Count(list, x) == Cardinality({i \in DOMAIN list : list[i] = x})

\* a and b hold the same entries, each as often.
SameEntries(a, b) ==
  /\ Len(a) = Len(b)
  /\ \A i \in DOMAIN a : Count(a, a[i]) = Count(b, a[i])

\* list without its position k.
Without(list, k) ==
  [j \in 1..(Len(list) - 1) |-> IF j < k THEN list[j] ELSE list[j + 1]]

AscendingByDate(list) ==
  \A i, j \in DOMAIN list : i < j => list[i].date.v <= list[j].date.v

\* C1: a call of addTracker with a non-empty name yields a list with one
\* more entry: the old trackers are all there, unchanged; the new entry has
\* the typed name, the date of the form, no expenses, status "In progress"
\* and expanded = false; and the whole list is in ascending date order,
\* whatever the order of the list before.  addTracker returns early on an
\* empty name only.
C1_AddTrackerAddsOneSorted ==
  /\ [][Called({"addTracker.return"}) => trackerName = ""]_vars
  /\ [][Edited("addTracker") =>
          /\ trackerName # ""
          /\ Len(trackers') = Len(trackers) + 1
          /\ \E k \in DOMAIN trackers' :
               /\ trackers'[k].name = trackerName
               /\ trackers'[k].date = trackerDate
               /\ trackers'[k].expenses = <<>>
               /\ trackers'[k].status = InProgress
               /\ trackers'[k].expanded = FALSE
               /\ SameEntries(Without(trackers', k), trackers)
          /\ AscendingByDate(trackers')]_vars

\* C1's case: the load put the two saved trackers in recency order, which
\* is not date order, and the one edit since was an addTracker.
C1_Witness ==
  /\ bootBlob # NoBlob
  /\ loadPc = "done"
  /\ lastOp.op = "addTracker"
  /\ edits = 1
  /\ Len(trackers) = 3
  /\ ~AscendingByDate(LoadedTrackers(bootBlob, now))

\* C2: addTracker called with an empty name, and addExpense called with an
\* empty title or an empty amount, change neither the tracker list nor a
\* form field nor the stored blob, and issue no write.
C2_InvalidInputNoOp ==
  [][(\/ Called({"addTracker", "addTracker.return"}) /\ trackerName = ""
      \/ /\ Called({"addExpense", "addExpense.return"})
         /\ (expenseTitle = "" \/ expenseAmount = <<>>))
     => UNCHANGED <<trackers, trackerName, trackerDate, expenseTitle,
                    expenseAmount, storage, writes>>]_vars

\* C2's case: addExpense has just returned early on an empty amount, with a
\* title typed and a tracker to add to.
C2_Witness ==
  /\ lastOp.op = "addExpense.return"
  /\ expenseTitle # ""
  /\ expenseAmount = <<>>
  /\ \E i \in DOMAIN trackers : lastOp.args = <<trackers[i].id>>

\* The positions of list whose tracker does not have the id.
Others(list, id) == {i \in DOMAIN list : list[i].id # id}

\* The j-th of the positions in keep, in ascending order.
Nth(keep, j) == CHOOSE i \in keep : Cardinality({k \in keep : k < i}) = j - 1

\* C5: deleteTracker(id) yields the list of the trackers with another id,
\* each unchanged (its expenses included) and in the same relative order;
\* no tracker with the id, and so none of its expenses, is left; and the
\* list is the same when no tracker has the id.
C5_DeleteTrackerFrame ==
  [][Edited("deleteTracker") =>
       \E id \in TrackerIds :
         /\ lastOp'.args = <<id>>
         /\ \A j \in DOMAIN trackers' : trackers'[j].id # id
         /\ Len(trackers') = Cardinality(Others(trackers, id))
         /\ \A j \in DOMAIN trackers' :
              trackers'[j] = trackers[Nth(Others(trackers, id), j)]
         /\ (Others(trackers, id) = DOMAIN trackers => trackers' = trackers)]_vars

\* C5's case: of the two loaded trackers the one that owns an expense has
\* just been deleted, and the other is what is left.
C5_Witness ==
  /\ bootBlob # NoBlob
  /\ loadPc = "done"
  /\ edits = 1
  /\ lastOp = [op |-> "deleteTracker", args |-> <<-1>>]
  /\ Len(trackers) = 1
  /\ trackers[1].id = 0

OtherStatus(s) == CHOOSE x \in {InProgress, Cleared} : x # s

\* C8: toggleStatus(id) changes the status of the trackers with that id to
\* the other of the two values and nothing else: the length and order of the
\* list, every tracker with another id, and the name, date, expenses and
\* expanded flag of the toggled ones stay; a second call gives back the list.
C8_ToggleStatusInvolution ==
  /\ [][Edited("toggleStatus") =>
          \E id \in TrackerIds :
            /\ lastOp'.args = <<id>>
            /\ Len(trackers') = Len(trackers)
            /\ \A i \in DOMAIN trackers :
                 IF trackers[i].id = id
                 THEN /\ trackers'[i].status = OtherStatus(trackers[i].status)
                      /\ trackers'[i].id = trackers[i].id
                      /\ trackers'[i].name = trackers[i].name
                      /\ trackers'[i].date = trackers[i].date
                      /\ trackers'[i].expenses = trackers[i].expenses
                      /\ trackers'[i].expanded = trackers[i].expanded
                 ELSE trackers'[i] = trackers[i]]_vars
  /\ [](\A id \in TrackerIds :
          ToggleStatusList(ToggleStatusList(trackers, id), id) = trackers)

\* C8's case: after the load, toggleStatus has been called twice on the
\* same tracker and that tracker has its saved status again.
C8_Witness ==
  /\ bootBlob # NoBlob
  /\ loadPc = "done"
  /\ edits = 2
  /\ lastOp = [op |-> "toggleStatus", args |-> <<0>>]
  /\ trackers = LoadedTrackers(bootBlob, now)

\* The sum of the amounts of the expenses at the positions in S, whatever
\* the order: not a number as soon as one of them is not.
RECURSIVE ValueSum(_, _)
ValueSum(expenses, S) ==
  IF S = {} THEN 0
  ELSE LET i == CHOOSE i \in S : TRUE
       IN  expenses[i].amount.v + ValueSum(expenses, S \ {i})

AmountSum(expenses, S) ==
  IF \E i \in S : expenses[i].amount.k = "nan" THEN NaN
  ELSE Num(ValueSum(expenses, S))

\* C7: in every state getTotal of a tracker is the sum of the amounts of the
\* expenses it owns, 0 for none.  addExpense(id, ...) appends the parsed
\* amount to the trackers with that id and adds it to their totals,
\* deleteExpense(id, expenseId) leaves them the sum of the amounts of their
\* expenses with another expense id, and both leave the total of every
\* tracker with another id as it was.
C7_TotalIsSumOfOwned ==
  /\ [](\A i \in DOMAIN trackers :
          getTotal(trackers[i]) =
            AmountSum(trackers[i].expenses, DOMAIN trackers[i].expenses))
  /\ [][Edited("addExpense") =>
          \E id \in TrackerIds :
            /\ lastOp'.args = <<id>>
            /\ Len(trackers') = Len(trackers)
            /\ \A i \in DOMAIN trackers :
                 IF trackers[i].id = id
                 THEN LET old == trackers[i].expenses
                          new == trackers'[i].expenses
                      IN  /\ Len(new) = Len(old) + 1
                          /\ SubSeq(new, 1, Len(old)) = old
                          /\ new[Len(new)].amount = parseFloat(expenseAmount)
                          /\ getTotal(trackers'[i]) =
                               Plus(getTotal(trackers[i]), new[Len(new)].amount)
                 ELSE getTotal(trackers'[i]) = getTotal(trackers[i])]_vars
  /\ [][Edited("deleteExpense") =>
          \E id \in TrackerIds, expenseId \in ExpenseIds :
            /\ lastOp'.args = <<id, expenseId>>
            /\ Len(trackers') = Len(trackers)
            /\ \A i \in DOMAIN trackers :
                 IF trackers[i].id = id
                 THEN LET old == trackers[i].expenses
                      IN  getTotal(trackers'[i]) =
                            AmountSum(old, {k \in DOMAIN old :
                                              old[k].id # expenseId})
                 ELSE getTotal(trackers'[i]) = getTotal(trackers[i])]_vars

\* C7's case: an expense of 10.50 has just been added to a tracker that
\* owned one of 5, and the total is 15.50.
C7_Witness ==
  /\ lastOp.op = "addExpense"
  /\ \E i \in DOMAIN trackers :
       /\ lastOp.args = <<trackers[i].id>>
       /\ Len(trackers[i].expenses) = 2
       /\ trackers[i].expenses[1].amount = Num(500)
       /\ trackers[i].expenses[2].amount = Num(1050)
       /\ getTotal(trackers[i]) = Num(1550)

\* C9: every change of the tracker list issues exactly one write, of the
\* whole new list, and nothing else issues one; a write that completes
\* leaves its blob as the stored value, whichever write it is.
C9_SavePerChange ==
  /\ [][(trackers' # trackers \/ BagCardinality(writes') > BagCardinality(writes))
          => writes' = writes (+) SetToBag({JSONstringify(trackers')})]_vars
  /\ [][BagCardinality(writes') < BagCardinality(writes)
          => /\ BagIn(storage', writes)
             /\ writes' = writes (-) SetToBag({storage'})
             /\ trackers' = trackers]_vars

\* C9's case: on a first launch two edits were made, every write has
\* completed, and the stored blob is the list of the first edit, not the
\* list in memory: the first edit's write completed after the second's.
C9_Witness ==
  /\ bootBlob = NoBlob
  /\ loadPc = "done"
  /\ writes = EmptyBag
  /\ edits = 2
  /\ Len(trackers) = 2
  /\ Len(JSONparse(storage)) = 1
  /\ storage # JSONstringify(trackers)

\* The set of the entries of a list.
Entries(list) == {list[i] : i \in DOMAIN list}

\* What a load makes of the blob a save writes for list.
Reloaded(list) == ParsedTrackers(JSONstringify(list))

\* C3: launched on a saved, non-empty list and left alone by the user, the
\* app ends, once the load and every write have completed, with the saved
\* trackers in memory and the saved trackers in storage.
C3_SavedListSurvivesLaunch ==
  (/\ bootBlob # NoBlob
   /\ edits = 0
   /\ loadPc = "done"
   /\ writes = EmptyBag)
  => /\ Entries(trackers) = Entries(ParsedTrackers(bootBlob))
     /\ storage # NoBlob
     /\ Entries(JSONparse(storage)) = Entries(JSONparse(bootBlob))

\* C4: a save followed by a load gives back the trackers of the list, each
\* with its id, name, date, status, expanded flag and expenses (id, title
\* and amount, in order); the order of the trackers aside.
C4_SaveLoadRoundTrip ==
  Entries(Reloaded(trackers)) = Entries(trackers)

\* C6: no two trackers of the list have the same id, and no two expenses
\* of one tracker have the same id.
C6_IdsUnique ==
  /\ \A i, j \in DOMAIN trackers :
       trackers[i].id = trackers[j].id => i = j
  /\ \A i \in DOMAIN trackers :
       \A k, l \in DOMAIN trackers[i].expenses :
         trackers[i].expenses[k].id = trackers[i].expenses[l].id => k = l

\* C10: a tracker made by addTracker in this launch (its id is an instant
\* of this launch) is in the list after every step, except a step that is
\* deleteTracker called with its id.
C10_AddedTrackerStays ==
  [][\A i \in DOMAIN trackers :
       trackers[i].id >= 1 =>
         \/ \E j \in DOMAIN trackers' : trackers'[j].id = trackers[i].id
         \/ /\ Edited("deleteTracker")
            /\ lastOp'.args = <<trackers[i].id>>]_vars

====
